---- MODULE Spec2Model ----
(***************************************************************************)
(* Model of platform/slpi/host_link.cc: the SLPI host link of CHRE.        *)
(*                                                                         *)
(*   - gOutboundQueue, a fixed-size blocking queue of MessageToHost        *)
(*     pointers, nullptr being the shutdown message;                       *)
(*   - HostLink::sendMessage, called by any number of producers;           *)
(*   - chre_slpi_get_message_to_host, the FastRPC call on which the host   *)
(*     blocks to fetch the next outbound message (the pump);               *)
(*   - chre_slpi_deliver_message_from_host, the FastRPC call with which    *)
(*     the host hands an encoded message to CHRE (the dispatcher);         *)
(*   - HostLinkBase::shutdown.                                             *)
(*                                                                         *)
(* CHRE_ASSERT is modelled as compiled out: every asserted condition is    *)
(* tested again by the code that follows it, which is only reachable in a  *)
(* build without assertions (so is the code after CHRE_ASSERT(false) in    *)
(* the pump).                                                              *)
(*                                                                         *)
(* Specifications: Spec is the transport (producers, pump, shutdown);      *)
(* FairSpec and PumpFairSpec add the scheduling of the shutdown thread and *)
(* of the polling host; DispatchSpec is the dispatcher on every buffer the *)
(* host may deliver; CodecSpec feeds the containers the pump produced back *)
(* to the dispatcher.                                                      *)
(***************************************************************************)
EXTENDS Integers, Sequences, FiniteSets, TLC

(***************************************************************************)
(* Bounds of the model.                                                    *)
(***************************************************************************)
\* Capacity of gOutboundQueue. The source sets 32 (host_link.cc:34); the
\* model scales the capacity down so that a full queue is reachable.
kOutboundQueueSize == 2
\* Number of MessageToHost objects the producers own.
MaxMessages == 3
\* Longest nanoapp payload, in bytes.
MaxPayload == 2
\* Largest destination buffer the host passes to the pump: it holds the
\* encoding of the longest payload exactly.
MaxBufferLen == 8
\* Number of times HostLinkBase::shutdown is invoked.
MaxShutdownCalls == 2
\* Longest inbound buffer the host delivers, and the largest byte value in it.
MaxInboundLen == 7
MaxByte == 2

(***************************************************************************)
(* Program constants.                                                      *)
(***************************************************************************)
\* host_link.cc:79, 212: the null MessageToHost pointer.
nullptr == 0
\* host_link.cc:84
INT_MAX == 2147483647
\* host_link.cc:210: int retryCount = 5;
kRetryCount == 5
\* host_link.cc:225: int waitCount = 5;
kWaitCount == 5
\* fbs::ChreMessage, the discriminant of MessageContainer.
ChreMessage_NONE == 0
ChreMessage_NanoappMessage == 1
ChreMessage_HubInfoRequest == 2

Messages == 1 .. MaxMessages

VARIABLES
    \* ---- gOutboundQueue and the producers ----
    queue,          \* gOutboundQueue: sequence of message pointers / nullptr
    sent,           \* sent[m]: "no", "accepted" (sendMessage returned true),
                    \*          "rejected" (sendMessage returned false)
    enqueued,       \* history: every entry pushed, in the order pushes took effect
    \* ---- chre_slpi_get_message_to_host (single host thread) ----
    pumpPc,         \* "idle" | "pop" (blocked in pop) | "popped" |
                    \* "logged" (LOGE has sent its record, line 101)
    bufferLen,      \* argument bufferLen of the call
    destBuffer,     \* the caller's buffer
    messageLen,     \* the caller's *messageLen
    messageLenIn,   \* *messageLen when the call was made
    message,        \* local `message`: the entry the call popped
    pumpResult,     \* return value of the call, "none" until it returns
    popped,         \* history: every entry popped, in order
    completions,    \* history: arguments of onMessageToHostComplete, in order
    pumpLog,        \* the logging path the call used, "none" until it returns
    \* ---- HostLinkBase::shutdown ----
    sdPc,           \* "idle" | "push" (first loop) | "drain" (second loop)
    retryCount,     \* local retryCount
    waitCount,      \* local waitCount
    sdCalls,        \* number of shutdown invocations so far
    sdLog,          \* what the current / last invocation did
    \* ---- chre_slpi_deliver_message_from_host ----
    dPc,            \* "off" | "call" (called, not yet run) |
                    \* "logged" (has logged its record) | "done"
    dIn,            \* arguments: message (null or not, bytes), messageLen
    dMem,           \* the memory at `message` that the running call reads
    dOut            \* what the call did, once it has ended

transportVars == <<queue, sent, enqueued, pumpPc, bufferLen,
                   destBuffer, messageLen, messageLenIn, message, pumpResult,
                   popped, completions, pumpLog, sdPc, retryCount, waitCount, sdCalls,
                   sdLog>>

dispatchVars == <<dPc, dIn, dMem, dOut>>

vars == <<transportVars, dispatchVars>>

(***************************************************************************)
(* MessageToHost objects. Message m carries a payload of                   *)
(* (m - 1) % (MaxPayload + 1) bytes, so that empty, short and long         *)
(* payloads all occur.                                                     *)
(***************************************************************************)
PayloadOf(m) == [i \in 1 .. ((m - 1) % (MaxPayload + 1)) |-> (m + i) % 4]

MessageToHost(m) ==
    [appId        |-> m,
     messageType  |-> m % 3,
     hostEndpoint |-> m % 2,
     message      |-> PayloadOf(m)]

(***************************************************************************)
(* FixedSizeBlockingQueue<const MessageToHost *, kOutboundQueueSize>       *)
(***************************************************************************)
\* push(): fails, without blocking, when the queue holds its capacity.
pushOk(q) == Len(q) < kOutboundQueueSize
push(q, e) == IF pushOk(q) THEN Append(q, e) ELSE q
\* pop(), once the queue is not empty: the oldest entry leaves the queue.
pop(q) == [value |-> Head(q), queue |-> Tail(q)]
\* empty()
empty(q) == Len(q) = 0

(***************************************************************************)
(* encodeNanoappMessage: the encoded MessageContainer as a byte sequence.  *)
(* Layout: discriminant, union-present flag, app id, message type, host    *)
(* endpoint, then the payload field: 0 when the field is absent, else the  *)
(* vector's length plus one, followed by the vector's bytes.               *)
(***************************************************************************)
CreateVector(bytes) == <<Len(bytes) + 1>> \o bytes

\* Variant: the vector is created for an empty payload as well.
encodeNanoappMessage_AlwaysVector(msgToHost) ==
    <<ChreMessage_NanoappMessage, 1, msgToHost.appId,
      msgToHost.messageType, msgToHost.hostEndpoint>>
        \o CreateVector(msgToHost.message)

encodeNanoappMessage(msgToHost) ==
    LET messageData == IF Len(msgToHost.message) > 0
                       THEN CreateVector(msgToHost.message)
                       ELSE <<0>>
    IN  <<ChreMessage_NanoappMessage, 1, msgToHost.appId,
          msgToHost.messageType, msgToHost.hostEndpoint>> \o messageData

(***************************************************************************)
(* chre_slpi_get_message_to_host, after pop() has returned `msg`.          *)
(* buf is the caller's buffer, len its *messageLen.  The result gives the  *)
(* return value, the buffer and *messageLen after the call, and the        *)
(* onMessageToHostComplete calls made.                                     *)
(***************************************************************************)
FreshBuffer(n) == [i \in 1 .. n |-> 0 - 1]

memcpy(buf, data) ==
    [i \in 1 .. (IF Len(data) > Len(buf) THEN Len(data) ELSE Len(buf)) |->
        IF i <= Len(data) THEN data[i] ELSE buf[i]]

onMessageToHostComplete(msg) == <<msg>>

\* Variant: the error branches return before the completion callback.
chre_slpi_get_message_to_host_ReturnsEarly(msg, buf, bufLen, len) ==
    IF msg = nullptr
    THEN [result |-> "SHUTTING_DOWN", buffer |-> buf, messageLen |-> len,
          complete |-> <<>>, log |-> "none"]
    ELSE LET m    == MessageToHost(msg)
             data == encodeNanoappMessage(m)
         IN  IF bufLen <= 0 \/ Len(m.message) > bufLen \/ Len(data) > bufLen
             THEN [result |-> "ERROR", buffer |-> buf, messageLen |-> len,
                   complete |-> <<>>, log |-> "FARF"]
             ELSE [result |-> "SUCCESS", buffer |-> memcpy(buf, data),
                   messageLen |-> Len(data),
                   complete |-> onMessageToHostComplete(msg), log |-> "none"]

\* Variant: the null message is not told apart and is reported as an error.
chre_slpi_get_message_to_host_NoNullCheck(msg, buf, bufLen, len) ==
    [result |-> "ERROR", buffer |-> buf, messageLen |-> len,
     complete |-> IF msg = nullptr THEN <<>>
                  ELSE onMessageToHostComplete(msg),
     log |-> "FARF"]

\* Variant: the null test is `message == nullptr || message->message.empty()`,
\* which takes a message without payload for the shutdown message.
chre_slpi_get_message_to_host_EmptyIsNull(msg, buf, bufLen, len) ==
    IF msg = nullptr
    THEN [result |-> "SHUTTING_DOWN", buffer |-> buf, messageLen |-> len,
          complete |-> <<>>, log |-> "none"]
    ELSE LET m    == MessageToHost(msg)
             data == encodeNanoappMessage(m)
         IN  IF Len(m.message) = 0
             THEN [result |-> "SHUTTING_DOWN", buffer |-> buf,
                   messageLen |-> len,
                   complete |-> onMessageToHostComplete(msg), log |-> "none"]
             ELSE IF bufLen <= 0 \/ Len(m.message) > bufLen
             THEN [result |-> "ERROR", buffer |-> buf, messageLen |-> len,
                   complete |-> onMessageToHostComplete(msg), log |-> "FARF"]
             ELSE IF Len(data) > bufLen
             THEN [result |-> "ERROR", buffer |-> buf, messageLen |-> len,
                   complete |-> onMessageToHostComplete(msg), log |-> "LOGE"]
             ELSE [result |-> "SUCCESS", buffer |-> memcpy(buf, data),
                   messageLen |-> Len(data),
                   complete |-> onMessageToHostComplete(msg), log |-> "none"]

\* Variant: the encoded message is copied before its size is tested, so
\* that the bytes that fit are written even when the call fails.
chre_slpi_get_message_to_host_CopiesFirst(msg, buf, bufLen, len) ==
    IF msg = nullptr
    THEN [result |-> "SHUTTING_DOWN", buffer |-> buf, messageLen |-> len,
          complete |-> <<>>, log |-> "none"]
    ELSE LET m    == MessageToHost(msg)
             data == encodeNanoappMessage(m)
             size == Len(data)
             part == SubSeq(data, 1, IF size > Len(buf) THEN Len(buf) ELSE size)
         IN  IF bufLen <= 0 \/ Len(m.message) > bufLen \/ size > bufLen
             THEN [result |-> "ERROR", buffer |-> memcpy(buf, part),
                   messageLen |-> len,
                   complete |-> onMessageToHostComplete(msg), log |-> "FARF"]
             ELSE [result |-> "SUCCESS", buffer |-> memcpy(buf, data),
                   messageLen |-> size,
                   complete |-> onMessageToHostComplete(msg), log |-> "none"]

chre_slpi_get_message_to_host(msg, buf, bufLen, len) ==
    IF msg = nullptr
    THEN [result |-> "SHUTTING_DOWN", buffer |-> buf, messageLen |-> len,
          complete |-> <<>>, log |-> "none"]
    ELSE LET m    == MessageToHost(msg)
             data == encodeNanoappMessage(m)
             size == Len(data)
             body ==
               IF \/ bufLen <= 0
                  \/ Len(m.message) > INT_MAX
                  \/ Len(m.message) > bufLen
               THEN [result |-> "ERROR", buffer |-> buf, messageLen |-> len,
                     log |-> "FARF"]
               ELSE IF size > bufLen
               THEN [result |-> "ERROR", buffer |-> buf, messageLen |-> len,
                     log |-> "LOGE"]
               ELSE [result |-> "SUCCESS", buffer |-> memcpy(buf, data),
                     messageLen |-> size, log |-> "none"]
         IN  [result     |-> body.result,
              buffer     |-> body.buffer,
              messageLen |-> body.messageLen,
              complete   |-> onMessageToHostComplete(msg),
              log        |-> body.log]

(***************************************************************************)
(* HostLink::sendMessage                                                   *)
(***************************************************************************)
\* Variant: the result of push() is dropped and success is reported.
sendMessage_IgnoresPushResult(q, m) == [result |-> TRUE, queue |-> push(q, m)]

\* Variant: the message is pushed twice.
sendMessage_PushesTwice(q, m) ==
    [result |-> pushOk(q), queue |-> push(push(q, m), m)]

\* Variant: the result of push() is negated.
sendMessage_ReportsFailure(q, m) ==
    [result |-> ~pushOk(q), queue |-> push(q, m)]

sendMessage(q, m) == [result |-> pushOk(q), queue |-> push(q, m)]

(***************************************************************************)
(* The two logging paths.  FARF, the emergency path, writes to the         *)
(* diagnostic log of the DSP and never touches the outbound queue.  The    *)
(* regular logs LOGE, LOGW and LOGD, the normal path, may in addition send *)
(* the record to the host, which they do with a sendMessage call of their  *)
(* own for the message `record`; the record is lost when the queue is      *)
(* full.                                                                   *)
(***************************************************************************)
FARF(q) == [result |-> FALSE, queue |-> q]

LOGE(q, record) == sendMessage(q, record)

LOGW(q, record) == sendMessage(q, record)

LOGD(q, record) == sendMessage(q, record)

RegularLogs == {"LOGE", "LOGW", "LOGD"}

\* The call of the macro named `macro` with the record `record`.
Log(macro, q, record) ==
    IF macro = "LOGE" THEN LOGE(q, record)
    ELSE IF macro = "LOGW" THEN LOGW(q, record)
    ELSE IF macro = "LOGD" THEN LOGD(q, record)
    ELSE FARF(q)

(***************************************************************************)
(* HostLinkBase::shutdown.  One iteration of                               *)
(*   while (!gOutboundQueue.push(nullptr) && --retryCount > 0) sleep;      *)
(* followed, when the loop ends, by the test of retryCount (line 216).     *)
(***************************************************************************)
\* Variant: the loop tests `retryCount-- > 0`, a post-decrement.
shutdownPushIteration_PostDecrement(q, retry) ==
    LET ok     == pushOk(q)
        retry2 == IF ok THEN retry ELSE retry - 1
        again  == (~ok) /\ retry > 0
    IN  [queue      |-> push(q, nullptr),
         pushed     |-> ok,
         retryCount |-> retry2,
         sleep      |-> again,
         next       |-> IF again THEN "push"
                        ELSE IF retry2 <= 0 THEN "no_room" ELSE "drain"]

\* Variant: the loop tests `!push(nullptr) & (--retryCount > 0)`, without
\* the short circuit, so that a successful attempt counts down as well.
shutdownPushIteration_AlwaysDecrements(q, retry) ==
    LET ok     == pushOk(q)
        retry2 == retry - 1
        again  == (~ok) /\ retry2 > 0
    IN  [queue      |-> push(q, nullptr),
         pushed     |-> ok,
         retryCount |-> retry2,
         sleep      |-> again,
         next       |-> IF again THEN "push"
                        ELSE IF retry2 <= 0 THEN "no_room" ELSE "drain"]

shutdownPushIteration(q, retry) ==
    LET ok     == pushOk(q)
        retry2 == IF ok THEN retry ELSE retry - 1
        again  == (~ok) /\ retry2 > 0
    IN  [queue      |-> push(q, nullptr),
         pushed     |-> ok,
         retryCount |-> retry2,
         sleep      |-> again,
         next       |-> IF again THEN "push"
                        ELSE IF retry2 <= 0 THEN "no_room" ELSE "drain"]

(***************************************************************************)
(* One iteration of                                                        *)
(*   while (!gOutboundQueue.empty() && --waitCount > 0) sleep;             *)
(* followed, when the loop ends, by the test of waitCount (line 230).      *)
(***************************************************************************)
\* Variant: the test after the loop is dropped and the drain is always
\* reported as finished.
shutdownDrainIteration_AlwaysFinished(q, wait) ==
    LET isEmpty == empty(q)
        wait2   == IF isEmpty THEN wait ELSE wait - 1
        again   == (~isEmpty) /\ wait2 > 0
    IN  [sawEmpty  |-> isEmpty,
         waitCount |-> wait2,
         sleep     |-> again,
         next      |-> IF again THEN "drain" ELSE "finished"]

\* Variant: the test after the loop is `waitCount <= 1`, which takes an
\* empty queue seen at the last check for a timeout.
shutdownDrainIteration_TimeoutAtLastCheck(q, wait) ==
    LET isEmpty == empty(q)
        wait2   == IF isEmpty THEN wait ELSE wait - 1
        again   == (~isEmpty) /\ wait2 > 0
    IN  [sawEmpty  |-> isEmpty,
         waitCount |-> wait2,
         sleep     |-> again,
         next      |-> IF again THEN "drain"
                       ELSE IF wait2 <= 1 THEN "timeout" ELSE "finished"]

shutdownDrainIteration(q, wait) ==
    LET isEmpty == empty(q)
        wait2   == IF isEmpty THEN wait ELSE wait - 1
        again   == (~isEmpty) /\ wait2 > 0
    IN  [sawEmpty  |-> isEmpty,
         waitCount |-> wait2,
         sleep     |-> again,
         next      |-> IF again THEN "drain"
                       ELSE IF wait2 <= 0 THEN "timeout" ELSE "finished"]

(***************************************************************************)
(* The inbound MessageContainer, in the layout of encodeNanoappMessage.    *)
(* The verifier is given the memory at `message` and the size it may       *)
(* trust, static_cast<size_t>(messageLen): a negative length becomes a     *)
(* huge size.  VerifyMessageContainerBuffer accepts a buffer when the      *)
(* discriminant is one of the schema, the union is absent or is a complete *)
(* table of the discriminant's type, and an optional payload vector lies   *)
(* within the size.  It tests every offset against the size before it      *)
(* reads there, and it does not read the bytes of the payload.             *)
(***************************************************************************)
Bytes == 0 .. MaxByte
BuffersOfLen(n) == [1 .. n -> Bytes]

\* The byte at offset i of the memory at `message`; a read past the bytes
\* the model knows yields 0.
ByteAt(buf, i) == IF i \in 1 .. Len(buf) THEN buf[i] ELSE 0

\* static_cast<size_t>(messageLen), line 170, with the size_t of 32 bits
\* of the DSP: a negative length becomes 2^32 + messageLen.  The value is
\* hi * 65536 + lo, kept as its two halves of 16 bits because it exceeds
\* INT_MAX.
static_cast_size_t(len) ==
    IF len < 0 THEN [hi |-> 65535, lo |-> 65536 + len]
    ELSE [hi |-> len \div 65536, lo |-> len % 65536]

\* size >= n, for an offset n below 65536.
SizeAtLeast(size, n) == size.hi > 0 \/ size.lo >= n

VerifyNanoappMessage(buf, size) ==
    /\ SizeAtLeast(size, 6)
    /\ ByteAt(buf, 6) >= 1 => SizeAtLeast(size, 6 + (ByteAt(buf, 6) - 1))

VerifyMessageContainerBuffer(buf, size) ==
    /\ SizeAtLeast(size, 2)
    /\ ByteAt(buf, 1) \in {ChreMessage_NONE, ChreMessage_NanoappMessage,
                           ChreMessage_HubInfoRequest}
    /\ ByteAt(buf, 2) \in {0, 1}
    /\ (ByteAt(buf, 1) = ChreMessage_NanoappMessage /\ ByteAt(buf, 2) = 1)
          => VerifyNanoappMessage(buf, size)

\* The highest offset the verifier reads: the discriminant and the union
\* offset, and the table of a nanoapp message up to its payload field.
VerifierReads(buf, size) ==
    IF ~SizeAtLeast(size, 2) THEN 0
    ELSE IF /\ ByteAt(buf, 1) = ChreMessage_NanoappMessage
            /\ ByteAt(buf, 2) = 1
            /\ SizeAtLeast(size, 6)
         THEN 6
         ELSE 2

\* fbs::NanoappMessage accessors: app_id(), message_type(), host_endpoint(),
\* message() (a null vector pointer when the field is absent).  `mapped`
\* tells whether the bytes of the payload are memory that can be read.
NanoappMessageAt(buf) ==
    [isNull        |-> FALSE,
     app_id        |-> ByteAt(buf, 3),
     message_type  |-> ByteAt(buf, 4),
     host_endpoint |-> ByteAt(buf, 5),
     message       |-> IF ByteAt(buf, 6) >= 1
                       THEN [isNull |-> FALSE,
                             data   |-> [i \in 1 .. (ByteAt(buf, 6) - 1) |->
                                            ByteAt(buf, 6 + i)],
                             mapped |-> 6 + (ByteAt(buf, 6) - 1) <= Len(buf)]
                       ELSE [isNull |-> TRUE, data |-> <<>>,
                             mapped |-> TRUE]]

\* fbs::GetMessageContainer: message_type() and message() of the root table.
GetMessageContainer(buf) ==
    [isNull       |-> FALSE,
     message_type |-> ByteAt(buf, 1),
     message      |-> IF ByteAt(buf, 2) = 1
                      THEN NanoappMessageAt(buf)
                      ELSE [isNull |-> TRUE]]

(***************************************************************************)
(* handleNanoappMessageFromHost: the sendMessageToNanoappFromHost calls it *)
(* makes, and the record it logs (LOGE at line 129, LOGD at line 142).     *)
(* Line 147 makes the routing call with the fields of the table whatever   *)
(* lies at the payload pointer; the router reads the payload, and when its *)
(* bytes are not memory that can be read that read faults (`fault`), after *)
(* the record has been logged and the call has been made.                  *)
(***************************************************************************)
\* Variant: an empty vector is passed on as a null pointer, like an absent
\* one.
handleNanoappMessageFromHost_NullWhenEmpty(msgFromHost) ==
    IF msgFromHost.isNull
    THEN [routed |-> <<>>, log |-> "dropping empty", logMacro |-> "LOGE",
          fault |-> FALSE]
    ELSE LET msgData     == msgFromHost.message
             payloadSize == IF ~msgData.isNull THEN Len(msgData.data) ELSE 0
         IN  [routed |->
                 <<[appId        |-> msgFromHost.app_id,
                    hostEndpoint |-> msgFromHost.host_endpoint,
                    messageType  |-> msgFromHost.message_type,
                    payload      |-> IF payloadSize > 0 THEN "data"
                                     ELSE "nullptr",
                    payloadBytes |-> msgData.data,
                    payloadSize  |-> payloadSize]>>,
              log |-> "parsed", logMacro |-> "LOGD",
              fault |-> ~msgData.mapped]

handleNanoappMessageFromHost(msgFromHost) ==
    IF msgFromHost.isNull
    THEN [routed |-> <<>>, log |-> "dropping empty", logMacro |-> "LOGE",
          fault |-> FALSE]
    ELSE LET msgData     == msgFromHost.message
             payload     == IF ~msgData.isNull THEN "data" ELSE "nullptr"
             payloadSize == IF ~msgData.isNull THEN Len(msgData.data) ELSE 0
         IN  [routed |->
                 <<[appId        |-> msgFromHost.app_id,
                    hostEndpoint |-> msgFromHost.host_endpoint,
                    messageType  |-> msgFromHost.message_type,
                    payload      |-> payload,
                    payloadBytes |-> msgData.data,
                    payloadSize  |-> payloadSize]>>,
              log |-> "parsed", logMacro |-> "LOGD",
              fault |-> ~msgData.mapped]

(***************************************************************************)
(* chre_slpi_deliver_message_from_host.  isNull tells whether `message`    *)
(* is the null pointer, mem is the memory the verifier reads at `message`. *)
(* Every path of the call logs one record: log names it, logMacro is the   *)
(* macro it is logged with.                                                *)
(***************************************************************************)
rejectsArguments(isNull, len) == isNull /\ len <= 0

\* The call faults in the verifier, at a read of memory that is not there:
\* it ends before it has logged anything.
Fault ==
    [result |-> "FAULT", verifierCalls |-> 1, verified |-> "fault",
     discriminantRead |-> FALSE, routed |-> <<>>, mem |-> <<>>, log |-> "none",
     logMacro |-> "none"]

\* Variant: the verification test is `!Verify... && Get... == nullptr`, which
\* lets a buffer through when either half holds.
chre_slpi_deliver_message_from_host_AndVerify(isNull, mem, len) ==
    IF rejectsArguments(isNull, len)
    THEN [result |-> "ERROR", verifierCalls |-> 0, verified |-> "not run",
          discriminantRead |-> FALSE, routed |-> <<>>, mem |-> <<>>,
          log |-> "null or invalid size", logMacro |-> "LOGE"]
    ELSE IF VerifierReads(mem, static_cast_size_t(len)) > Len(mem)
    THEN Fault
    ELSE IF /\ ~VerifyMessageContainerBuffer(mem, static_cast_size_t(len))
            /\ GetMessageContainer(mem).isNull
    THEN [result |-> "ERROR", verifierCalls |-> 1, verified |-> "failed",
          discriminantRead |-> FALSE, routed |-> <<>>, mem |-> mem,
          log |-> "corrupted", logMacro |-> "LOGE"]
    ELSE LET container == GetMessageContainer(mem)
             isNanoapp ==
                 container.message_type = ChreMessage_NanoappMessage
             handled   == handleNanoappMessageFromHost(container.message)
         IN  [result |-> IF isNanoapp /\ handled.fault THEN "FAULT"
                         ELSE "SUCCESS",
              verifierCalls |-> 1,
              verified |-> IF VerifyMessageContainerBuffer(
                                  mem, static_cast_size_t(len))
                           THEN "passed" ELSE "failed",
              discriminantRead |-> TRUE, mem |-> mem,
              routed |-> IF isNanoapp THEN handled.routed ELSE <<>>,
              log |-> IF isNanoapp THEN handled.log ELSE "unexpected type",
              logMacro |-> IF isNanoapp THEN handled.logMacro ELSE "LOGW"]

\* Variant: `result = CHRE_FASTRPC_SUCCESS` is set in the NanoappMessage
\* case only, so that the default case returns the initial ERROR.
chre_slpi_deliver_message_from_host_DefaultFails(isNull, mem, len) ==
    IF rejectsArguments(isNull, len)
    THEN [result |-> "ERROR", verifierCalls |-> 0, verified |-> "not run",
          discriminantRead |-> FALSE, routed |-> <<>>, mem |-> <<>>,
          log |-> "null or invalid size", logMacro |-> "LOGE"]
    ELSE IF VerifierReads(mem, static_cast_size_t(len)) > Len(mem)
    THEN Fault
    ELSE IF \/ ~VerifyMessageContainerBuffer(mem, static_cast_size_t(len))
            \/ GetMessageContainer(mem).isNull
    THEN [result |-> "ERROR", verifierCalls |-> 1, verified |-> "failed",
          discriminantRead |-> FALSE, routed |-> <<>>, mem |-> mem,
          log |-> "corrupted", logMacro |-> "LOGE"]
    ELSE LET container == GetMessageContainer(mem)
             isNanoapp ==
                 container.message_type = ChreMessage_NanoappMessage
             handled   == handleNanoappMessageFromHost(container.message)
         IN  [result |-> IF isNanoapp /\ handled.fault THEN "FAULT"
                         ELSE IF isNanoapp THEN "SUCCESS" ELSE "ERROR",
              verifierCalls |-> 1,
              verified |-> "passed",
              discriminantRead |-> TRUE, mem |-> mem,
              routed |-> IF isNanoapp THEN handled.routed ELSE <<>>,
              log |-> IF isNanoapp THEN handled.log ELSE "unexpected type",
              logMacro |-> IF isNanoapp THEN handled.logMacro ELSE "LOGW"]

chre_slpi_deliver_message_from_host(isNull, mem, len) ==
    IF rejectsArguments(isNull, len)
    THEN [result |-> "ERROR", verifierCalls |-> 0, verified |-> "not run",
          discriminantRead |-> FALSE, routed |-> <<>>, mem |-> <<>>,
          log |-> "null or invalid size", logMacro |-> "LOGE"]
    ELSE IF VerifierReads(mem, static_cast_size_t(len)) > Len(mem)
    THEN Fault
    ELSE IF \/ ~VerifyMessageContainerBuffer(mem, static_cast_size_t(len))
            \/ GetMessageContainer(mem).isNull
    THEN [result |-> "ERROR", verifierCalls |-> 1, verified |-> "failed",
          discriminantRead |-> FALSE, routed |-> <<>>, mem |-> mem,
          log |-> "corrupted", logMacro |-> "LOGE"]
    ELSE LET container == GetMessageContainer(mem)
             isNanoapp ==
                 container.message_type = ChreMessage_NanoappMessage
             handled   == handleNanoappMessageFromHost(container.message)
         IN  [result |-> IF isNanoapp /\ handled.fault THEN "FAULT"
                         ELSE "SUCCESS",
              verifierCalls |-> 1,
              verified |-> "passed",
              discriminantRead |-> TRUE, mem |-> mem,
              routed |-> IF isNanoapp THEN handled.routed ELSE <<>>,
              log |-> IF isNanoapp THEN handled.log ELSE "unexpected type",
              logMacro |-> IF isNanoapp THEN handled.logMacro ELSE "LOGW"]

(***************************************************************************)
(* The memory the call may read.  With a valid pointer and messageLen =    *)
(* the buffer's size it is the buffer.  A null pointer with a positive     *)
(* length, and a valid pointer with a negative length (converted to a huge *)
(* size_t), allow reads outside any object: what can be read there is      *)
(* arbitrary, some bytes (at the null pointer, or beyond the buffer) and   *)
(* then memory that is not mapped, where a read faults.                    *)
(***************************************************************************)
OutOfBounds(in) ==
    \/ in.isNull /\ in.messageLen > 0
    \/ ~in.isNull /\ in.messageLen < 0

DeliverReads(in) ==
    IF ~OutOfBounds(in) THEN {in.bytes}
    ELSE IF in.isNull
    THEN UNION {BuffersOfLen(n) : n \in 0 .. in.messageLen}
    ELSE UNION {{in.bytes \o beyond : beyond \in BuffersOfLen(n)} :
                   n \in 0 .. (MaxInboundLen - Len(in.bytes))}

(***************************************************************************)
(* Initial state                                                           *)
(***************************************************************************)
NoDelivery ==
    [result |-> "none", verifierCalls |-> 0, verified |-> "not run",
     discriminantRead |-> FALSE, routed |-> <<>>, mem |-> <<>>, log |-> "none",
     logMacro |-> "none"]

NoInput == [isNull |-> TRUE, bytes |-> <<>>, messageLen |-> 0]

\* The arguments the host may pass: a null pointer with any length, or a
\* buffer with its size or with a negative length.
DeliverInput(in) ==
    \/ \E n \in 0 .. MaxInboundLen : \E b \in BuffersOfLen(n) :
          in = [isNull |-> FALSE, bytes |-> b, messageLen |-> n]
    \/ \E n \in 0 .. MaxInboundLen : \E b \in BuffersOfLen(n) :
          in = [isNull |-> FALSE, bytes |-> b, messageLen |-> 0 - 1]
    \/ \E n \in (0 - 1) .. MaxInboundLen :
          in = [isNull |-> TRUE, bytes |-> <<>>, messageLen |-> n]

NoShutdownLog ==
    [outcome |-> "none", attempts |-> 0, pushed |-> FALSE, sleeps1 |-> 0,
     checks |-> 0, sleeps2 |-> 0, sawEmpty |-> FALSE, emptyAtCall |-> FALSE,
     firstPushed |-> FALSE, failed |-> 0, sentinelAt |-> 0]

TransportInit ==
    /\ queue = <<>>
    /\ sent = [m \in Messages |-> "no"]
    /\ enqueued = <<>>
    /\ pumpPc = "idle"
    /\ bufferLen = 0
    /\ destBuffer = <<>>
    /\ messageLen = 0
    /\ messageLenIn = 0
    /\ message = nullptr
    /\ pumpResult = "none"
    /\ popped = <<>>
    /\ completions = <<>>
    /\ pumpLog = "none"
    /\ sdPc = "idle"
    /\ retryCount = 0
    /\ waitCount = 0
    /\ sdCalls = 0
    /\ sdLog = NoShutdownLog

Init ==
    /\ TransportInit
    /\ dPc = "off"
    /\ dIn = NoInput
    /\ dMem = <<>>
    /\ dOut = NoDelivery

\* The dispatcher on its own: the host is about to deliver some buffer.
DispatchInit ==
    /\ TransportInit
    /\ dPc = "call"
    /\ DeliverInput(dIn)
    /\ dMem = <<>>
    /\ dOut = NoDelivery

producerVars == <<sent>>
pumpVars == <<pumpPc, bufferLen, destBuffer, messageLen, messageLenIn,
              message, pumpResult, popped, completions, pumpLog>>
shutdownVars == <<sdPc, retryCount, waitCount, sdCalls, sdLog>>

(***************************************************************************)
(* A producer calls HostLink::sendMessage(m).  The producers hand over     *)
(* their messages in the order of the message numbers.  The logging        *)
(* subsystem is one of the producers when it sends to the host a record    *)
(* that a call of the dispatcher has logged.                               *)
(***************************************************************************)
SendMessage(m) ==
    /\ sent[m] = "no"
    /\ \A k \in Messages : k < m => sent[k] # "no"
    /\ LET r == sendMessage(queue, m)
       IN  /\ queue' = r.queue
           /\ sent' = [sent EXCEPT ![m] = IF r.result THEN "accepted"
                                          ELSE "rejected"]
           /\ enqueued' = IF r.queue = queue THEN enqueued
                          ELSE Append(enqueued, m)
    /\ UNCHANGED <<pumpVars, shutdownVars, dispatchVars>>

(***************************************************************************)
(* The host calls chre_slpi_get_message_to_host(buffer, len, &messageLen). *)
(***************************************************************************)
BufferLens == {0, 1, MaxBufferLen}
StaleLens == {0, 1}

PumpCall(len, stale) ==
    /\ pumpPc = "idle"
    /\ pumpPc' = "pop"
    /\ bufferLen' = len
    /\ destBuffer' = FreshBuffer(len)
    /\ messageLen' = stale
    /\ messageLenIn' = stale
    /\ pumpResult' = "none"
    /\ pumpLog' = "none"
    /\ UNCHANGED <<queue, enqueued, producerVars, message, popped,
                   completions, shutdownVars, dispatchVars>>

\* gOutboundQueue.pop() returns: it blocks while the queue is empty.
PumpPop ==
    /\ pumpPc = "pop"
    /\ ~empty(queue)
    /\ pumpPc' = "popped"
    /\ message' = pop(queue).value
    /\ queue' = pop(queue).queue
    /\ popped' = Append(popped, pop(queue).value)
    /\ UNCHANGED <<enqueued, producerVars, bufferLen, destBuffer, messageLen,
                   messageLenIn, pumpResult, completions, pumpLog,
                   shutdownVars, dispatchVars>>

\* A record logged with a regular log may be sent to the host: the logging
\* subsystem is then one more producer, and the record travels in the next
\* MessageToHost not yet handed over.
NextUnsent == {m \in Messages : /\ sent[m] = "no"
                                /\ \A k \in Messages : k < m => sent[k] # "no"}

\* The call of the regular log `macro` sends its record to the host.
LogForwarded(macro) ==
    /\ macro \in RegularLogs
    /\ \E m \in NextUnsent : \E l \in {Log(macro, queue, m)} :
          /\ queue' = l.queue
          /\ sent' = [sent EXCEPT ![m] = IF l.result THEN "accepted"
                                         ELSE "rejected"]
          /\ enqueued' = IF l.result THEN Append(enqueued, m)
                         ELSE enqueued

\* The call of the log macro `macro` sends nothing to the host ("none": the
\* step logs nothing).
LogKept(macro) ==
    /\ queue' = (IF macro = "FARF" THEN FARF(queue).queue ELSE queue)
    /\ UNCHANGED <<sent, enqueued>>

\* What the call of the log macro `macro` does to the outbound queue.
LogStep(macro) == LogForwarded(macro) \/ LogKept(macro)

\* Line 101 in the case that LOGE sends its record to the host: the push
\* takes and releases the lock of the queue, and the call goes on at line
\* 104 in a later step.
PumpLog ==
    /\ pumpPc = "popped"
    /\ pumpPc' = "logged"
    /\ NextUnsent # {}
    /\ \E r \in {chre_slpi_get_message_to_host(message, destBuffer, bufferLen,
                                               messageLen)} :
          /\ r.log = "LOGE"
          /\ LogForwarded(r.log)
    /\ UNCHANGED <<bufferLen, destBuffer, messageLen, messageLenIn, message,
                   pumpResult, popped, completions, pumpLog, shutdownVars,
                   dispatchVars>>

\* The rest of the call, lines 78-117: all of it when the call sends no log
\* record to the host, lines 104-117 after PumpLog.

PumpReturn ==
    /\ pumpPc \in {"popped", "logged"}
    /\ pumpPc' = "idle"
    /\ \E r \in {chre_slpi_get_message_to_host(message, destBuffer, bufferLen,
                                               messageLen)} :
          /\ destBuffer' = r.buffer
          /\ messageLen' = r.messageLen
          /\ pumpResult' = r.result
          /\ completions' = completions \o r.complete
          /\ pumpLog' = r.log
          /\ LogKept(IF pumpPc = "logged" THEN "none" ELSE r.log)
    /\ UNCHANGED <<bufferLen, messageLenIn, message, popped, shutdownVars,
                   dispatchVars>>

(***************************************************************************)
(* HostLinkBase::shutdown                                                  *)
(***************************************************************************)
ShutdownPushStep(retry, log) ==
    LET r == shutdownPushIteration(queue, retry)
    IN  /\ queue' = r.queue
        /\ enqueued' = IF r.pushed THEN Append(enqueued, nullptr) ELSE enqueued
        /\ retryCount' = r.retryCount
        /\ waitCount' = IF r.next = "drain" THEN kWaitCount ELSE waitCount
        /\ sdPc' = IF r.next \in {"push", "drain"} THEN r.next ELSE "idle"
        /\ sdLog' = [log EXCEPT
                       !.attempts = @ + 1,
                       !.pushed = r.pushed,
                       !.failed = IF r.pushed THEN @ ELSE @ + 1,
                       !.sentinelAt = IF r.pushed THEN Len(enqueued) + 1 ELSE @,
                       !.firstPushed = IF log.attempts = 0 THEN r.pushed ELSE @,
                       !.sleeps1 = IF r.sleep THEN @ + 1 ELSE @,
                       !.outcome = IF r.next = "no_room" THEN "no_room" ELSE @]

\* shutdown() is called: lines 202-212, up to the first push attempt.
ShutdownCall ==
    /\ sdPc = "idle"
    /\ sdCalls < MaxShutdownCalls
    /\ sdCalls' = sdCalls + 1
    /\ ShutdownPushStep(kRetryCount,
                        [NoShutdownLog EXCEPT !.emptyAtCall = empty(queue)])
    /\ UNCHANGED <<producerVars, pumpVars, dispatchVars>>

\* A later iteration of the first loop.
ShutdownRetry ==
    /\ sdPc = "push"
    /\ ShutdownPushStep(retryCount, sdLog)
    /\ UNCHANGED <<producerVars, pumpVars, sdCalls, dispatchVars>>

\* An iteration of the second loop.
ShutdownDrain ==
    /\ sdPc = "drain"
    /\ LET r == shutdownDrainIteration(queue, waitCount)
       IN  /\ waitCount' = r.waitCount
           /\ sdPc' = IF r.next = "drain" THEN "drain" ELSE "idle"
           /\ sdLog' = [sdLog EXCEPT
                          !.checks = @ + 1,
                          !.sawEmpty = r.sawEmpty,
                          !.sleeps2 = IF r.sleep THEN @ + 1 ELSE @,
                          !.outcome = IF r.next = "drain" THEN @ ELSE r.next]
    /\ UNCHANGED <<queue, enqueued, producerVars, pumpVars, retryCount,
                   sdCalls, dispatchVars>>

Next ==
    \/ \E m \in Messages : SendMessage(m)
    \/ \E len \in BufferLens, stale \in StaleLens : PumpCall(len, stale)
    \/ PumpPop
    \/ PumpLog
    \/ PumpReturn
    \/ ShutdownCall
    \/ ShutdownRetry
    \/ ShutdownDrain

Spec == Init /\ [][Next]_vars

(***************************************************************************)
(* The host's call of chre_slpi_deliver_message_from_host runs, on the     *)
(* memory it can read at `message`.  Every path of the call that gets past *)
(* the verifier's reads logs one record and only then routes and returns;  *)
(* the record goes through a regular log, which may send it to the host    *)
(* through the outbound queue, and other threads run in between.           *)
(***************************************************************************)
\* Lines 161-185 up to and including the call of the log macro.
DeliverLog ==
    /\ dPc = "call"
    /\ dPc' = "logged"
    /\ \E mem \in DeliverReads(dIn) :
          \E r \in {chre_slpi_deliver_message_from_host(dIn.isNull, mem,
                                                        dIn.messageLen)} :
             /\ r.logMacro # "none"
             /\ dMem' = mem
             /\ LogStep(r.logMacro)
    /\ UNCHANGED <<dIn, dOut, pumpVars, shutdownVars>>

\* A read of the verifier faults (lines 170-172).  The fault ends the
\* process, and gOutboundQueue with it.
DeliverFault ==
    /\ dPc = "call"
    /\ dPc' = "done"
    /\ \E mem \in DeliverReads(dIn) :
          \E r \in {chre_slpi_deliver_message_from_host(dIn.isNull, mem,
                                                        dIn.messageLen)} :
             /\ r.logMacro = "none"
             /\ dMem' = mem
             /\ dOut' = r
    /\ queue' = <<>>
    /\ UNCHANGED <<dIn, sent, enqueued, pumpVars, shutdownVars>>

\* The rest of the call: the routing call (line 147) and the return, or a
\* fault inside the router after the call was made, which ends the process.
DeliverReturn ==
    /\ dPc = "logged"
    /\ dPc' = "done"
    /\ dOut' = chre_slpi_deliver_message_from_host(dIn.isNull, dMem,
                                                    dIn.messageLen)
    /\ queue' = (IF dOut'.result = "FAULT" THEN <<>> ELSE queue)
    /\ UNCHANGED <<dIn, dMem, sent, enqueued, pumpVars, shutdownVars>>

Deliver == DeliverLog \/ DeliverFault \/ DeliverReturn

DispatchNext == Deliver

DispatchSpec == DispatchInit /\ [][DispatchNext]_vars

(***************************************************************************)
(* The codec end to end: the host hands the container it has just received *)
(* from a successful pump call back to the dispatcher, whose call then     *)
(* runs next to the pump.  The host makes one dispatcher call at a time.   *)
(***************************************************************************)
EchoMessage ==
    /\ pumpPc = "idle"
    /\ pumpResult = "SUCCESS"
    /\ dPc \in {"off", "done"}
    /\ dPc' = "call"
    /\ dIn' = [isNull |-> FALSE, bytes |-> SubSeq(destBuffer, 1, messageLen),
               messageLen |-> messageLen]
    /\ dMem' = <<>>
    /\ dOut' = NoDelivery
    /\ UNCHANGED transportVars

CodecNext ==
    \/ \E m \in Messages : SendMessage(m)
    \/ \E len \in BufferLens, stale \in StaleLens : PumpCall(len, stale)
    \/ PumpPop
    \/ PumpLog
    \/ PumpReturn
    \/ EchoMessage
    \/ DeliverLog
    \/ DeliverReturn

CodecSpec == Init /\ [][CodecNext]_vars

(***************************************************************************)
(* The thread that runs shutdown keeps running: a loop iteration that can  *)
(* be taken is taken.  Nothing is assumed of the producers or of the host, *)
(* which may never call the pump.                                          *)
(***************************************************************************)
FairSpec == Spec /\ WF_vars(ShutdownRetry) /\ WF_vars(ShutdownDrain)

(***************************************************************************)
(* The host keeps polling: when no pump call is running it makes one, and  *)
(* the thread that serves the call keeps running (pop returns when the     *)
(* queue holds an entry, and the rest of the call follows).  Nothing is    *)
(* assumed of the producers or of the thread that runs shutdown.           *)
(***************************************************************************)
HostPolls == \E len \in BufferLens, stale \in StaleLens : PumpCall(len, stale)

\* The steps of the one thread that polls.
Pump == HostPolls \/ PumpPop \/ PumpLog \/ PumpReturn

PumpFairSpec == Spec /\ WF_vars(Pump)

(***************************************************************************)
(* Auxiliary definitions for the properties                                *)
(***************************************************************************)
IsRealMessage(e) == e # nullptr
RealMessages(s) == SelectSeq(s, IsRealMessage)
Range(s) == {s[i] : i \in 1 .. Len(s)}

\* The entries popped by pump calls that have returned.
PoppedAndReturned ==
    IF pumpPc \in {"popped", "logged"}
    THEN SubSeq(popped, 1, Len(popped) - 1) ELSE popped

\* The last pump call has returned, and it had popped the null message.
PumpReturnedFromSentinel ==
    /\ pumpPc = "idle"
    /\ popped # <<>>
    /\ popped[Len(popped)] = nullptr

(***************************************************************************)
(* C1.  At every moment the onMessageToHostComplete calls made so far are  *)
(* exactly the real (non-null) messages popped by the pump calls that have *)
(* returned, one call per message and in the same order, whichever branch  *)
(* each call took; a popped null message adds no callback.                 *)
(***************************************************************************)
C1_CompletionOncePerDequeuedMessage ==
    completions = RealMessages(PoppedAndReturned)

\* A call has returned ERROR from the encoded-size branch (the payload fits
\* bufferLen, the encoding does not), the callback for its message was made,
\* and a null message has been popped before without a callback.
C1_Witness ==
    /\ pumpPc = "idle"
    /\ pumpResult = "ERROR"
    /\ message # nullptr
    /\ bufferLen > 0
    /\ Len(PayloadOf(message)) <= bufferLen
    /\ completions # <<>>
    /\ completions[Len(completions)] = message
    /\ nullptr \in Range(popped)

(***************************************************************************)
(* C2 as stated.  When the pump has popped the null message, the call      *)
(* returns SHUTTING_DOWN, reports zero bytes written (messageLen is 0)    *)
(* and leaves the destination buffer unwritten.                            *)
(***************************************************************************)
C2_SentinelReportsZeroBytes ==
    PumpReturnedFromSentinel =>
        /\ pumpResult = "SHUTTING_DOWN"
        /\ messageLen = 0
        /\ destBuffer = FreshBuffer(bufferLen)

(***************************************************************************)
(* C2 amended.  When the pump has popped the null message, the call        *)
(* returns SHUTTING_DOWN, leaves the destination buffer unwritten and      *)
(* leaves *messageLen as the caller passed it: the byte count is an output *)
(* only of a successful call.                                              *)
(***************************************************************************)
C2_SentinelLeavesOutputsUntouched ==
    PumpReturnedFromSentinel =>
        /\ pumpResult = "SHUTTING_DOWN"
        /\ messageLen = messageLenIn
        /\ destBuffer = FreshBuffer(bufferLen)

\* A call that was given a buffer and a stale, nonzero *messageLen has
\* returned after popping the null message.
C2_Witness ==
    /\ PumpReturnedFromSentinel
    /\ pumpResult = "SHUTTING_DOWN"
    /\ bufferLen > 0
    /\ messageLenIn # 0

(***************************************************************************)
(* C3.  The queue never holds more than kOutboundQueueSize entries, null   *)
(* message included.  A sendMessage call returns false exactly when the    *)
(* queue holds kOutboundQueueSize entries when it is made, and then leaves *)
(* the queue alone; otherwise it returns true and appends the message.     *)
(* The call is never blocked: the producer whose turn it is can always     *)
(* take its step.                                                          *)
(***************************************************************************)
SendMessageStep(m) == sent[m] = "no" /\ sent'[m] # "no"

C3_BoundedQueueAndRejectWhenFull ==
    [][/\ Len(queue) <= kOutboundQueueSize
       /\ Len(queue') <= kOutboundQueueSize
       /\ \A m \in Messages :
            /\ SendMessageStep(m) =>
                 /\ (sent'[m] = "rejected") <=> (Len(queue) = kOutboundQueueSize)
                 /\ sent'[m] = "rejected" => queue' = queue
                 /\ sent'[m] = "accepted" => queue' = Append(queue, m)
            /\ (sent[m] = "no" /\ \A k \in 1 .. (m - 1) : sent[k] # "no")
                 => ENABLED SendMessage(m)]_vars

\* One message was rejected by a full queue that held the null message, and
\* another was accepted.
C3_Witness ==
    /\ \E m \in Messages : sent[m] = "rejected"
    /\ \E m \in Messages : sent[m] = "accepted"
    /\ Len(queue) = kOutboundQueueSize
    /\ nullptr \in Range(queue)

(***************************************************************************)
(* C5.  Every shutdown call returns, whatever the producers and the host   *)
(* do, and until it does it has made at most kRetryCount push attempts and *)
(* at most kWaitCount emptiness checks and has slept at most that many     *)
(* times in each loop.                                                     *)
(***************************************************************************)
ShutdownWithinBudget ==
    /\ sdLog.attempts <= kRetryCount
    /\ sdLog.sleeps1 <= kRetryCount
    /\ sdLog.checks <= kWaitCount
    /\ sdLog.sleeps2 <= kWaitCount

C5_ShutdownAlwaysReturns ==
    /\ []ShutdownWithinBudget
    /\ (sdPc # "idle") ~> (sdPc = "idle" /\ sdLog.outcome # "none")

\* Shutdown has returned after all its emptiness checks, from a queue that
\* the host never polled and the producers kept full.
C5_Witness ==
    /\ sdPc = "idle"
    /\ sdLog.outcome = "timeout"
    /\ sdLog.checks = kWaitCount
    /\ popped = <<>>
    /\ pumpPc = "idle"
    /\ Len(queue) = kOutboundQueueSize

(***************************************************************************)
(* C6.  A shutdown call reports "no room" exactly when it has returned     *)
(* after kRetryCount failed push attempts; it has then pushed no null      *)
(* message and made no emptiness check.  A call whose push succeeded, at   *)
(* whichever attempt, is in the drain loop or has returned from it.        *)
(***************************************************************************)
C6_NoRoomIffAllAttemptsFailed ==
    /\ (sdLog.outcome = "no_room")
          <=> (sdPc = "idle" /\ sdLog.failed = kRetryCount)
    /\ sdLog.outcome = "no_room" =>
          /\ ~sdLog.pushed
          /\ sdLog.attempts = kRetryCount
          /\ sdLog.sentinelAt = 0
          /\ sdLog.checks = 0
          /\ sdCalls = 1 => nullptr \notin Range(enqueued)
    /\ sdLog.pushed =>
          /\ sdLog.sentinelAt \in 1 .. Len(enqueued)
          /\ enqueued[sdLog.sentinelAt] = nullptr
          /\ sdPc = "drain" \/ sdLog.outcome \in {"timeout", "finished"}

\* The first four attempts failed, the fifth and last one succeeded, and
\* shutdown is in the drain loop.
C6_Witness ==
    /\ sdLog.failed = kRetryCount - 1
    /\ sdLog.attempts = kRetryCount
    /\ sdLog.pushed
    /\ sdPc = "drain"

\* All five attempts failed on a full queue of real messages that nobody
\* consumes, and shutdown has returned.
C6_WitnessNoRoom ==
    /\ sdLog.outcome = "no_room"
    /\ sdPc = "idle"
    /\ popped = <<>>
    /\ Len(queue) = kOutboundQueueSize

(***************************************************************************)
(* C7 as stated.  A shutdown call made while the queue is empty pushes the *)
(* null message at its first attempt and returns with "finished draining", *)
(* before its wait budget is used up.                                      *)
(***************************************************************************)
ShutdownReturned == sdPc = "idle" /\ sdLog.outcome # "none"

C7_EmptyQueueShutdownFinishes ==
    (sdLog.emptyAtCall /\ ShutdownReturned) =>
        /\ sdLog.firstPushed
        /\ sdLog.outcome = "finished"
        /\ sdLog.checks < kWaitCount

(***************************************************************************)
(* C7 amended.  A shutdown call made while the queue is empty pushes the   *)
(* null message at its first attempt, without sleeping.  It returns with   *)
(* "finished draining" only if one of its emptiness checks found the queue *)
(* empty, that is only if the pump had popped the null message by then;    *)
(* when none of the kWaitCount checks did (no pump call takes the null     *)
(* message in time), it returns with the drain timeout.                    *)
(***************************************************************************)
C7_EmptyQueueShutdownPushesAtOnce ==
    sdLog.emptyAtCall =>
        /\ sdLog.firstPushed
        /\ sdLog.attempts = 1
        /\ sdLog.sleeps1 = 0
        /\ sdLog.outcome \in {"none", "finished", "timeout"}
        /\ sdLog.outcome = "finished" =>
              /\ sdLog.sawEmpty
              /\ Len(popped) >= sdLog.sentinelAt
              /\ popped[sdLog.sentinelAt] = nullptr
        /\ sdLog.outcome = "timeout" =>
              /\ ~sdLog.sawEmpty
              /\ sdLog.checks = kWaitCount

\* Shutdown was called on an empty queue, the pump took the null message,
\* and shutdown returned "finished" at its first emptiness check.
C7_Witness ==
    /\ sdLog.emptyAtCall
    /\ ShutdownReturned
    /\ sdLog.outcome = "finished"
    /\ sdLog.checks = 1
    /\ PumpReturnedFromSentinel

(***************************************************************************)
(* C8.  A dispatcher call whose buffer pointer is null or whose length is  *)
(* not positive returns ERROR without running the verifier and without a   *)
(* routing call.                                                           *)
(***************************************************************************)
C8_RejectsNullOrNonPositive ==
    (dPc = "done" /\ (dIn.isNull \/ dIn.messageLen <= 0)) =>
        /\ dOut.result = "ERROR"
        /\ dOut.verifierCalls = 0
        /\ dOut.routed = <<>>

(***************************************************************************)
(* C9.  A dispatcher call whose buffer fails verification returns ERROR,   *)
(* does not read the discriminant and makes no routing call; a call that   *)
(* read the discriminant or made a routing call ran the verifier first and *)
(* the verifier accepted the buffer it read.                               *)
(***************************************************************************)
\* The call passed the buffer with its size, so the verifier read the buffer.
DeliveredInBounds ==
    dPc = "done" /\ ~dIn.isNull /\ dIn.messageLen = Len(dIn.bytes)

C9_FailsClosed ==
    dPc = "done" =>
        /\ (/\ DeliveredInBounds
            /\ ~VerifyMessageContainerBuffer(
                   dIn.bytes, static_cast_size_t(Len(dIn.bytes)))) =>
              /\ dOut.result = "ERROR"
              /\ ~dOut.discriminantRead
              /\ dOut.routed = <<>>
        /\ dOut.verified = "failed" =>
              /\ dOut.result = "ERROR"
              /\ ~dOut.discriminantRead
              /\ dOut.routed = <<>>
        /\ (dOut.discriminantRead \/ dOut.routed # <<>>) =>
              /\ dOut.verifierCalls = 1
              /\ dOut.verified = "passed"
              /\ VerifyMessageContainerBuffer(
                     dOut.mem, static_cast_size_t(dIn.messageLen))

\* A buffer cut down to its first byte, a NanoappMessage discriminant, was
\* delivered and rejected.
C9_Witness ==
    /\ DeliveredInBounds
    /\ dIn.bytes = <<ChreMessage_NanoappMessage>>
    /\ dOut.verified = "failed"
    /\ dOut.result = "ERROR"

(***************************************************************************)
(* C10.  A dispatcher call whose buffer passed verification and whose      *)
(* discriminant is not NanoappMessage returns SUCCESS and makes no routing *)
(* call.                                                                   *)
(***************************************************************************)
C10_UnsupportedDiscriminantSucceeds ==
    (/\ dPc = "done"
     /\ dOut.verified = "passed"
     /\ ByteAt(dOut.mem, 1) # ChreMessage_NanoappMessage) =>
        /\ dOut.result = "SUCCESS"
        /\ dOut.routed = <<>>

\* A well-formed container of another type of the schema, with its table
\* present, was delivered.
C10_Witness ==
    /\ DeliveredInBounds
    /\ VerifyMessageContainerBuffer(
                   dIn.bytes, static_cast_size_t(Len(dIn.bytes)))
    /\ dIn.bytes[1] = ChreMessage_HubInfoRequest
    /\ dIn.bytes[2] = 1
    /\ dOut.result = "SUCCESS"
    /\ dOut.log = "unexpected type"

(***************************************************************************)
(* C4.  The entries the pump has popped, followed by the entries still in  *)
(* the queue, are exactly the entries pushed, in the order the pushes took *)
(* effect: nothing is reordered, lost or duplicated.  The real messages    *)
(* among them are the messages sendMessage accepted, each once.            *)
(***************************************************************************)
C4_FifoHandoff ==
    /\ popped \o queue = enqueued
    /\ \A m \in Messages :
         Cardinality({i \in 1 .. Len(enqueued) : enqueued[i] = m})
            = IF sent[m] = "accepted" THEN 1 ELSE 0

\* Two accepted messages have been popped, in order, a third one was
\* rejected in between, and the null message pushed after them waits in
\* the queue.
C4_Witness ==
    /\ Len(RealMessages(popped)) >= 2
    /\ nullptr \in Range(queue)
    /\ \E m \in Messages : sent[m] = "rejected"

(***************************************************************************)
(* C11.  A pump call that has returned SUCCESS was given a positive        *)
(* bufferLen that is at least the payload length and at least the encoded  *)
(* size; the buffer then starts with the whole encoded message, its other  *)
(* bytes are as the caller left them, and *messageLen is the encoded size, *)
(* which is at most bufferLen.  A call that has returned ERROR or          *)
(* SHUTTING_DOWN has written no byte of the buffer and has left            *)
(* *messageLen alone; the message it popped has left the queue for good    *)
(* and is not copied by a later call.                                      *)
(***************************************************************************)
PumpReturned == pumpPc = "idle" /\ pumpResult # "none"

C11_AllOrNothingBufferWrite ==
    PumpReturned =>
        /\ pumpResult = "SUCCESS" =>
              LET data == encodeNanoappMessage(MessageToHost(message))
              IN  /\ message # nullptr
                  /\ bufferLen > 0
                  /\ Len(PayloadOf(message)) <= bufferLen
                  /\ Len(data) <= bufferLen
                  /\ Len(destBuffer) = bufferLen
                  /\ SubSeq(destBuffer, 1, Len(data)) = data
                  /\ \A i \in (Len(data) + 1) .. bufferLen :
                        destBuffer[i] = FreshBuffer(bufferLen)[i]
                  /\ messageLen = Len(data)
                  /\ messageLen <= bufferLen
        /\ pumpResult \in {"ERROR", "SHUTTING_DOWN"} =>
              /\ destBuffer = FreshBuffer(bufferLen)
              /\ messageLen = messageLenIn
              /\ message \notin Range(queue) \/ message = nullptr
        /\ pumpResult = "ERROR" =>
              /\ message # nullptr
              /\ \/ bufferLen <= 0
                 \/ Len(PayloadOf(message)) > bufferLen
                 \/ Len(encodeNanoappMessage(MessageToHost(message))) > bufferLen

\* A call has returned SUCCESS with a message whose encoding fills the
\* buffer to its last byte, after an earlier message went through the pump.
C11_Witness ==
    /\ PumpReturned
    /\ pumpResult = "SUCCESS"
    /\ messageLen = bufferLen
    /\ Len(completions) >= 2
    /\ Len(RealMessages(popped)) = Len(completions)

\* A call has returned ERROR from the encoded-size test: the payload fits
\* the buffer, the encoding does not.
C11_WitnessDropped ==
    /\ PumpReturned
    /\ pumpResult = "ERROR"
    /\ bufferLen > 0
    /\ Len(PayloadOf(message)) <= bufferLen
    /\ destBuffer = FreshBuffer(bufferLen)

(***************************************************************************)
(* C12.  No pump call uses the normal logging path: a call that returns    *)
(* ERROR, whichever of its size tests failed, has reported the failure     *)
(* through the emergency path alone, and no pump call adds an entry to the *)
(* outbound queue.                                                         *)
(***************************************************************************)
PumpReturnStep == pumpPc \in {"popped", "logged"} /\ pumpPc' = "idle"
PumpLogStep == pumpPc = "popped" /\ pumpPc' = "logged"

C12_PumpLogsThroughEmergencyPathOnly ==
    [][/\ PumpReturnStep =>
             /\ pumpResult' = "ERROR" => pumpLog' = "FARF"
             /\ pumpLog' # "LOGE"
       /\ (PumpReturnStep \/ PumpLogStep) =>
             /\ queue' = queue
             /\ enqueued' = enqueued]_vars

(***************************************************************************)
(* C13 as stated.  A dispatcher call on a verified container that holds a  *)
(* nanoapp message makes one routing call, with the app id, the host       *)
(* endpoint and the message type of the container; when the payload field  *)
(* is absent, and also when it is present with no bytes, the routing call  *)
(* gets a null payload pointer and the payload size 0.                     *)
(***************************************************************************)
\* The call verified a container with a NanoappMessage table in it.
RoutedNanoappMessage ==
    /\ dPc = "done"
    /\ dOut.verified = "passed"
    /\ ByteAt(dOut.mem, 1) = ChreMessage_NanoappMessage
    /\ ByteAt(dOut.mem, 2) = 1

\* The routing call carries the three scalar fields of the container.
ForwardsFieldsVerbatim ==
    /\ Len(dOut.routed) = 1
    /\ dOut.routed[1].appId = ByteAt(dOut.mem, 3)
    /\ dOut.routed[1].messageType = ByteAt(dOut.mem, 4)
    /\ dOut.routed[1].hostEndpoint = ByteAt(dOut.mem, 5)

C13_AbsentAndEmptyPayloadBothNull ==
    RoutedNanoappMessage =>
        /\ ForwardsFieldsVerbatim
        /\ ByteAt(dOut.mem, 6) \in {0, 1} =>
              /\ dOut.routed[1].payload = "nullptr"
              /\ dOut.routed[1].payloadSize = 0

(***************************************************************************)
(* C13 amended.  A dispatcher call on a verified container that holds a    *)
(* nanoapp message makes one routing call, with the app id, the host       *)
(* endpoint and the message type of the container.  The payload size is    *)
(* the length of the payload vector, 0 when the field is absent.  The      *)
(* payload pointer is null exactly when the field is absent: a vector      *)
(* that is present with no bytes is passed as a non-null pointer (to the   *)
(* vector's data in the buffer) with the payload size 0.                   *)
(***************************************************************************)
C13_AbsentPayloadNullEmptyPayloadNot ==
    RoutedNanoappMessage =>
        /\ ForwardsFieldsVerbatim
        /\ ByteAt(dOut.mem, 6) = 0 =>
              /\ dOut.routed[1].payload = "nullptr"
              /\ dOut.routed[1].payloadSize = 0
        /\ ByteAt(dOut.mem, 6) >= 1 =>
              /\ dOut.routed[1].payload = "data"
              /\ dOut.routed[1].payloadSize = ByteAt(dOut.mem, 6) - 1
              /\ dOut.routed[1].payloadBytes =
                    [i \in 1 .. (ByteAt(dOut.mem, 6) - 1) |->
                        ByteAt(dOut.mem, 6 + i)]

\* A container whose payload vector is present and empty was delivered and
\* routed with a non-null pointer and the size 0.
C13_Witness ==
    /\ DeliveredInBounds
    /\ RoutedNanoappMessage
    /\ dIn.bytes[6] = 1
    /\ Len(dOut.routed) = 1
    /\ dOut.routed[1].payloadSize = 0
    /\ dOut.routed[1].payload = "data"
    /\ dOut.routed[1].appId # dOut.routed[1].messageType

(***************************************************************************)
(* C14.  A container that a pump call produced for a message, handed to    *)
(* the dispatcher, is accepted and gives one routing call with the app id, *)
(* the message type, the host endpoint and the payload bytes of that       *)
(* message.  A message with an empty payload is encoded without the        *)
(* payload field and is routed with payload size 0; a longer payload is    *)
(* routed byte for byte.  The same holds of the codec alone, for every     *)
(* message, whatever the size of the destination buffer.                   *)
(***************************************************************************)
\* The routing call that carries the fields of message m.
RoutingCallOf(m) ==
    [appId        |-> MessageToHost(m).appId,
     hostEndpoint |-> MessageToHost(m).hostEndpoint,
     messageType  |-> MessageToHost(m).messageType,
     payload      |-> IF Len(PayloadOf(m)) = 0 THEN "nullptr" ELSE "data",
     payloadBytes |-> PayloadOf(m),
     payloadSize  |-> Len(PayloadOf(m))]

\* Decoding of a container outside any call of the pump.
DecodeRoundTrip(m) ==
    LET data == encodeNanoappMessage(MessageToHost(m))
        out  == chre_slpi_deliver_message_from_host(FALSE, data, Len(data))
    IN  /\ out.result = "SUCCESS"
        /\ out.routed = <<RoutingCallOf(m)>>
        /\ (Len(PayloadOf(m)) = 0) <=> (data[Len(data)] = 0 /\ Len(data) = 6)

C14_EncodeDecodeRoundTrip ==
    /\ \A m \in Messages : DecodeRoundTrip(m)
    /\ dPc = "done" =>
          \E m \in Range(completions) :
              /\ dIn.bytes = encodeNanoappMessage(MessageToHost(m))
              /\ dOut.result = "SUCCESS"
              /\ dOut.verified = "passed"
              /\ dOut.routed = <<RoutingCallOf(m)>>

\* The container of a message with the longest payload came back through
\* the dispatcher, after the container of a message with an empty payload
\* went through the pump.
C14_Witness ==
    /\ dPc = "done"
    /\ Len(dOut.routed) = 1
    /\ dOut.routed[1].payloadSize = MaxPayload
    /\ dOut.routed[1].payloadBytes = PayloadOf(message)
    /\ \E m \in Range(completions) : Len(PayloadOf(m)) = 0

\* The container of a message with an empty payload came back through the
\* dispatcher and was routed with a null payload pointer.
C14_WitnessEmpty ==
    /\ dPc = "done"
    /\ Len(dIn.bytes) = 6
    /\ Len(dOut.routed) = 1
    /\ dOut.routed[1].payloadSize = 0
    /\ dOut.routed[1].payload = "nullptr"

(***************************************************************************)
(* C15.  Shutdown goes once through RUNNING, DRAINING and STOPPED: no step *)
(* takes it back to an earlier stage, a shutdown call made after STOPPED   *)
(* was reached does not enter DRAINING again, and at most one null message *)
(* is ever pushed onto the outbound queue, however many calls are made.    *)
(***************************************************************************)
\* 0: RUNNING, no call yet; 1: DRAINING, a call is in one of its two loops;
\* 2: STOPPED, the call has returned.
ShutdownStage(calls, pc) ==
    IF calls = 0 THEN 0 ELSE IF pc # "idle" THEN 1 ELSE 2

SentinelsPushed(history) ==
    Cardinality({i \in 1 .. Len(history) : history[i] = nullptr})

C15_ShutdownIsOneShot ==
    [][/\ ShutdownStage(sdCalls', sdPc') >= ShutdownStage(sdCalls, sdPc)
       /\ SentinelsPushed(enqueued') <= 1]_vars

(***************************************************************************)
(* C16.  A pump call returns SHUTTING_DOWN exactly when the entry it       *)
(* popped is the null message: a real message, with or without payload,    *)
(* never gives that result.  When a call returns SHUTTING_DOWN, every real *)
(* message pushed before the null message it popped has been popped by an  *)
(* earlier call and has had its completion callback, in the order of the   *)
(* pushes.                                                                 *)
(***************************************************************************)
C16_ShuttingDownOnlyFromSentinelInOrder ==
    PumpReturned =>
        /\ (pumpResult = "SHUTTING_DOWN") <=> (message = nullptr)
        /\ (pumpResult = "SHUTTING_DOWN") <=> (popped[Len(popped)] = nullptr)
        /\ pumpResult = "SHUTTING_DOWN" =>
              /\ Len(enqueued) >= Len(popped)
              /\ enqueued[Len(popped)] = nullptr
              /\ RealMessages(SubSeq(enqueued, 1, Len(popped) - 1))
                    = completions

\* A call has returned SHUTTING_DOWN after two real messages, one of them
\* without payload, went through the pump ahead of the null message, while
\* a message accepted after the null message waits in the queue.
C16_Witness ==
    /\ PumpReturned
    /\ pumpResult = "SHUTTING_DOWN"
    /\ Len(completions) >= 2
    /\ \E m \in Range(completions) : Len(PayloadOf(m)) = 0
    /\ \E m \in Range(queue) : m # nullptr

(***************************************************************************)
(* C17.  Once shutdown has pushed the null message, and as long as the     *)
(* host keeps calling the pump, a pump call returns SHUTTING_DOWN: the     *)
(* entries ahead of the null message are popped one call at a time, and a  *)
(* call that was blocked in pop on an empty queue returns with the null    *)
(* message.                                                                *)
(***************************************************************************)
SentinelQueued == nullptr \in Range(queue)

PumpReportedShutdown == PumpReturnedFromSentinel /\ pumpResult = "SHUTTING_DOWN"

C17_SentinelUnblocksConsumer == SentinelQueued ~> PumpReportedShutdown

\* Shutdown was called on an empty queue on which no message was ever
\* pushed, and the pump call that found nothing but the null message has
\* returned SHUTTING_DOWN.
C17_Witness ==
    /\ PumpReportedShutdown
    /\ sdLog.emptyAtCall
    /\ popped = <<nullptr>>
    /\ \A m \in Messages : sent[m] = "no"

(***************************************************************************)
(* C18.  Once a shutdown call has made its first attempt to push the null  *)
(* message, no step adds a real message to the outbound queue; so no real  *)
(* message is ever pushed after a null message, to wait behind it in the   *)
(* queue or to be popped after it.                                         *)
(***************************************************************************)
NoRealMessageAfterSentinel(history) ==
    \A i, j \in 1 .. Len(history) :
        (i < j /\ history[i] = nullptr) => history[j] = nullptr

C18_NoSendAfterShutdownBegins ==
    [][/\ sdCalls >= 1 => RealMessages(enqueued') = RealMessages(enqueued)
       /\ NoRealMessageAfterSentinel(enqueued')]_vars

(***************************************************************************)
(* C19.  A shutdown call that has returned reports one of "no room",       *)
(* "timeout" and "finished".  It reports "finished" only when it pushed    *)
(* the null message and its last emptiness check, one of at most           *)
(* kWaitCount, found the queue empty, the pump having popped that null     *)
(* message by then; it reports "timeout" exactly when it pushed the null   *)
(* message and made kWaitCount checks that all found an entry in the       *)
(* queue.                                                                  *)
(***************************************************************************)
C19_ThreeShutdownOutcomes ==
    ShutdownReturned =>
        /\ sdLog.outcome \in {"no_room", "timeout", "finished"}
        /\ sdLog.outcome = "finished" =>
              /\ sdLog.pushed
              /\ sdLog.checks \in 1 .. kWaitCount
              /\ sdLog.sawEmpty
              /\ sdLog.sleeps2 = sdLog.checks - 1
              /\ Len(popped) >= sdLog.sentinelAt
              /\ popped[sdLog.sentinelAt] = nullptr
        /\ (sdLog.outcome = "timeout") <=>
              /\ sdLog.pushed
              /\ sdLog.checks = kWaitCount
              /\ sdLog.sleeps2 = kWaitCount - 1
              /\ ~sdLog.sawEmpty

\* Four checks found an entry in the queue, the pump popped the null
\* message, and the fifth and last check found the queue empty: finished.
C19_Witness ==
    /\ ShutdownReturned
    /\ sdLog.outcome = "finished"
    /\ sdLog.checks = kWaitCount
    /\ sdLog.sleeps2 = kWaitCount - 1

(***************************************************************************)
(* C20.  A message that sendMessage rejected is not in the queue, was      *)
(* never pushed or popped and has had no completion callback.  A message   *)
(* that sendMessage accepted has had at most one completion callback, and  *)
(* has had it only if the pump has popped it, after which it is no longer  *)
(* in the queue.  Every completion callback was made for a message that    *)
(* sendMessage had accepted.                                               *)
(***************************************************************************)
Occurrences(history, e) ==
    Cardinality({i \in 1 .. Len(history) : history[i] = e})

C20_OwnershipConserved ==
    /\ \A m \in Messages :
         /\ sent[m] # "accepted" =>
               /\ m \notin Range(queue)
               /\ m \notin Range(enqueued)
               /\ m \notin Range(popped)
               /\ m \notin Range(completions)
               /\ message # m
         /\ sent[m] = "accepted" =>
               /\ Occurrences(completions, m) <= 1
               /\ Occurrences(enqueued, m) = 1
               /\ Occurrences(popped, m) + Occurrences(queue, m) = 1
               /\ m \in Range(completions) =>
                     /\ m \in Range(PoppedAndReturned)
                     /\ m \notin Range(queue)
    /\ \A i \in 1 .. Len(completions) :
         /\ completions[i] \in Messages
         /\ sent[completions[i]] = "accepted"

\* One message was rejected by a full queue, another was accepted, popped
\* and completed, and a third was accepted and popped by a call that has
\* not returned yet, so that its callback is still to come.
C20_Witness ==
    /\ \E m \in Messages : sent[m] = "rejected"
    /\ completions # <<>>
    /\ pumpPc = "popped"
    /\ message # nullptr
    /\ message \notin Range(completions)
====
